---------------------------- MODULE Spec2Model ----------------------------
(***************************************************************************)
(* A model of the MP3 library tools: clean_mp3_metadata.py (the allow-list *)
(* cleanup and its driver) and rekordbox_to_mp3.py (the location resolver, *)
(* the BPM/key overwrite and its driver).                                  *)
(*                                                                         *)
(* Python strings that the code inspects (tag keys, BPM strings, location  *)
(* strings) are sequences of one-character strings, so that startswith,    *)
(* indexing, lstrip, replace, unquote and float() are modelled by what     *)
(* they do.  Tag values that the code never inspects are opaque strings.   *)
(*                                                                         *)
(* The ID3 container (mutagen) is modelled at the interface the code uses: *)
(* a dictionary from frame hash keys to values supporting keys(), "in",    *)
(* del, add and save; audio.tags is None for a file without an ID3 header. *)
(***************************************************************************)
EXTENDS Integers, Sequences, FiniteSets

VARIABLES
    os_name,             \* os.name: "nt" or "posix"
    disk,                \* path -> the ID3 container stored in that file
    tags_to_keep,        \* the allow-list handed to clean_mp3_metadata
    mp3_files,           \* main() of the cleanup: the list find_mp3_files returned
    pc,                  \* position of the running driver
    idx,                 \* number of loop iterations completed
    processed,           \* counters of the drivers' main()
    errors,
    total_tags_removed,
    missing,
    last,                \* the last call made: its arguments, the file before it, its result
    log,                 \* the per-file lines the driver has logged
    orig                 \* the files as they were when the run started

vars == << os_name, disk, tags_to_keep, mp3_files, pc, idx, processed, errors,
           total_tags_removed, missing, last, log, orig >>

----------------------------------------------------------------------------
(* Bounds of the model *)

NumFiles == 2        \* files in the directory tree of the cleanup driver
MaxTracks == 2       \* tracks of the XML export the import driver walks
MaxBpmLen == 3       \* length of the enumerated BPM strings
MaxLocLen == 5       \* characters (or escapes) of a location after its prefix
MaxOps == 3          \* calls in a composition of the two tools on one file

----------------------------------------------------------------------------
(* Python string helpers *)

StartsWith(s, p) == Len(s) >= Len(p) /\ SubSeq(s, 1, Len(p)) = p

RECURSIVE SeqsUpTo(_, _)
SeqsUpTo(A, n) ==
    IF n = 0 THEN { <<>> }
    ELSE LET shorter == SeqsUpTo(A, n - 1)
         IN  shorter \cup { Append(s, a) : s \in { t \in shorter : Len(t) = n - 1 }, a \in A }

Range(f) == { f[x] : x \in DOMAIN f }

----------------------------------------------------------------------------
(* Tag keys: the literals of the source, and frame hash keys of a file *)

TALB == <<"T","A","L","B">>
TPE2 == <<"T","P","E","2">>
TPE1 == <<"T","P","E","1">>
TCMP == <<"T","C","M","P">>
APIC == <<"A","P","I","C">>
TRCK == <<"T","R","C","K">>
TIT2 == <<"T","I","T","2">>
TDRC == <<"T","D","R","C">>
TYER == <<"T","Y","E","R">>
COMM == <<"C","O","M","M">>
TCON == <<"T","C","O","N">>
TIT1 == <<"T","I","T","1">>
TCOM == <<"T","C","O","M">>
TMOO == <<"T","M","O","O">>
TPOS == <<"T","P","O","S">>
TBPM == <<"T","B","P","M">>
TKEY == <<"T","K","E","Y">>
TXXX_ == <<"T","X","X","X",":">>
APIC_ == <<"A","P","I","C",":">>
BPM == <<"B","P","M">>
INITIALKEY == <<"I","N","I","T","I","A","L","K","E","Y">>
MOOD == <<"M","O","O","D">>
GROUPING == <<"G","R","O","U","P","I","N","G">>
ALBUMARTIST == <<"A","L","B","U","M","A","R","T","I","S","T">>
COMPILATION == <<"C","O","M","P","I","L","A","T","I","O","N">>
FOO == <<"F","O","O">>
cover == <<"c","o","v","e","r">>

TXXX_BPM == TXXX_ \o BPM
TXXX_INITIALKEY == TXXX_ \o INITIALKEY
TXXX_FOO == TXXX_ \o FOO
APIC_cover == APIC_ \o cover
APIC_empty == APIC_
COMM_eng == COMM \o <<":",":","e","n","g">>

get_tags_to_keep_withoutBackupKey ==
    { TALB, TPE2, TPE1, TCMP, APIC, TRCK, TIT2, TDRC, TYER, COMM, TCON, TIT1,
      TCOM, TMOO, TPOS, TBPM, TKEY,
      TXXX_BPM, TXXX_ \o MOOD, TXXX_ \o GROUPING,
      TXXX_ \o ALBUMARTIST, TXXX_ \o COMPILATION }

get_tags_to_keep ==
    { TALB, TPE2, TPE1, TCMP, APIC, TRCK, TIT2, TDRC, TYER, COMM, TCON, TIT1,
      TCOM, TMOO, TPOS, TBPM, TKEY,
      TXXX_BPM, TXXX_INITIALKEY, TXXX_ \o MOOD, TXXX_ \o GROUPING,
      TXXX_ \o ALBUMARTIST, TXXX_ \o COMPILATION }

----------------------------------------------------------------------------
(* The ID3 container *)

NoTags == [hasTags |-> FALSE, tags |-> << >>]
WithTags(t) == [hasTags |-> TRUE, tags |-> t]

Keys(t) == DOMAIN t
DelTag(t, k) == [x \in (DOMAIN t) \ {k} |-> t[x]]
DelTags(t, ks) == [x \in (DOMAIN t) \ ks |-> t[x]]
AddTag(t, k, v) == [x \in (DOMAIN t) \cup {k} |-> IF x = k THEN v ELSE t[x]]

Collections(keys, values) ==
    UNION { [S -> values] : S \in SUBSET keys }

(* The values a Python call returns: False, True or an int *)
PyFalse == [kind |-> "False", n |-> 0]
PyTrue == [kind |-> "True", n |-> 1]
PyInt(n) == [kind |-> "int", n |-> n]
IsFalse(r) == r.kind = "False"            \* result is False
AsInt(r) == r.n                           \* True counts as 1, False as 0


----------------------------------------------------------------------------
(* clean_mp3_metadata.py *)

(* The if/elif chain of the loop body: whether the loop deletes `tag`. *)
Deleted_noCoverArtCase(tag, keep) == tag \notin keep

Deleted_keepsEveryTXXX(tag, keep) ==
    IF StartsWith(tag, TXXX_) THEN FALSE
    ELSE IF StartsWith(tag, APIC_) THEN FALSE
    ELSE tag \notin keep

Deleted(tag, keep) ==
    IF StartsWith(tag, TXXX_) THEN tag \notin keep
    ELSE IF StartsWith(tag, APIC_) THEN FALSE
    ELSE tag \notin keep

(* What the file system does to one call: MP3() raises, save() raises before
   anything is written, save() raises after the tags were written, or neither. *)
IOOutcomes == { "ok", "load_fails", "save_fails", "save_fails_written" }

(* clean_mp3_metadata(file_path, tags_to_keep): the value returned and the
   file as stored afterwards. *)
clean_mp3_metadata(file, keep, io) ==
    IF io = "load_fails" THEN [result |-> PyFalse, file |-> file]
    ELSE IF ~file.hasTags THEN [result |-> PyTrue, file |-> file]
    ELSE LET current_tags == Keys(file.tags)
             removed == { tag \in current_tags : Deleted(tag, keep) }
             tags_removed == Cardinality(removed)
             cleaned == WithTags(DelTags(file.tags, removed))
         IN  IF tags_removed > 0
             THEN IF io = "save_fails" THEN [result |-> PyFalse, file |-> file]
                  ELSE IF io = "save_fails_written"
                       THEN [result |-> PyFalse, file |-> cleaned]
                       ELSE [result |-> PyInt(tags_removed), file |-> cleaned]
             ELSE [result |-> PyInt(0), file |-> file]

----------------------------------------------------------------------------
(* Files *)

DigitChars == <<"0","1","2","3","4","5","6","7","8","9">>
DigitChar(d) == DigitChars[d + 1]

(* The path of the n-th file of the library on each platform. *)
FilePath(os, n) ==
    IF os = "nt" THEN <<"E", ":", "\\", DigitChar(n)>> ELSE <<"/", DigitChar(n)>>

V1 == <<"v","1">>
V2 == <<"v","2">>
Values == { V1, V2 }

NoCall == [op |-> "none"]

----------------------------------------------------------------------------
(* One call of clean_mp3_metadata on one file, for any collection and any
   allow-list. *)

CleanCallKeys == { TALB, TBPM, TXXX_BPM, TXXX_FOO, APIC_cover, COMM_eng }
CleanCallKeep == { TALB, TXXX_BPM, TXXX_FOO, APIC, APIC_cover, COMM }
CleanCallFiles ==
    { NoTags } \cup { WithTags(t) : t \in Collections(CleanCallKeys, Values) }

InitCleanCall ==
    /\ os_name = "posix"
    /\ \E f \in CleanCallFiles : disk = [p \in { FilePath("posix", 1) } |-> f]
    /\ tags_to_keep \in SUBSET CleanCallKeep
    /\ mp3_files = << FilePath("posix", 1) >>
    /\ pc = "call"
    /\ idx = 0
    /\ processed = 0
    /\ errors = 0
    /\ total_tags_removed = 0
    /\ missing = 0
    /\ last = NoCall
    /\ log = << >>
    /\ orig = disk

CleanCall ==
    /\ pc = "call"
    /\ \E io \in IOOutcomes :
          LET path == mp3_files[1]
              out == clean_mp3_metadata(disk[path], tags_to_keep, io)
          IN  /\ disk' = [disk EXCEPT ![path] = out.file]
              /\ last' = [op |-> "clean", path |-> path, before |-> disk[path],
                          io |-> io, result |-> out.result]
    /\ pc' = "returned"
    /\ UNCHANGED << os_name, tags_to_keep, mp3_files, idx, processed, errors,
                    total_tags_removed, missing, log, orig >>

NextCleanCall == CleanCall

SpecCleanCall == InitCleanCall /\ [][NextCleanCall]_vars

(* The cover-art family: the keys of APIC frames. *)
IsCoverArtKey(k) == Len(k) >= 4 /\ SubSeq(k, 1, 4) = APIC

CleanReturned == pc = "returned" /\ last.op = "clean"

(* C1: after clean_mp3_metadata returns without error, every key still in
   the collection is in the allow-list or is a cover-art key, every key that
   is neither has been deleted, and a TXXX key survives only when the exact
   'TXXX:descriptor' string is in the allow-list. *)
C1_AllowListPolicy ==
    (CleanReturned /\ ~IsFalse(last.result)) =>
        LET before == last.before.tags
            after == disk[last.path].tags
        IN  /\ \A k \in Keys(after) : k \in tags_to_keep \/ IsCoverArtKey(k)
            /\ \A k \in Keys(before) :
                  (k \notin tags_to_keep /\ ~IsCoverArtKey(k)) => k \notin Keys(after)
            /\ \A k \in Keys(after) : StartsWith(k, TXXX_) => k \in tags_to_keep
            /\ Keys(after) \subseteq Keys(before)

C1_Witness ==
    /\ CleanReturned /\ ~IsFalse(last.result)
    /\ last.before.hasTags
    /\ TXXX_FOO \in Keys(last.before.tags) /\ TXXX_FOO \notin tags_to_keep
    /\ TXXX_BPM \in Keys(last.before.tags) /\ TXXX_BPM \in tags_to_keep
    /\ COMM_eng \in Keys(last.before.tags) /\ COMM \in tags_to_keep
    /\ Keys(disk[last.path].tags) = { TXXX_BPM }

(* C2: clean_mp3_metadata never deletes a cover-art key, whatever the
   allow-list: each one present before the call is present after it with the
   same value. *)
C2_CoverArtKept ==
    CleanReturned =>
        \A k \in Keys(last.before.tags) :
            IsCoverArtKey(k) =>
                /\ k \in Keys(disk[last.path].tags)
                /\ disk[last.path].tags[k] = last.before.tags[k]

C2_Witness ==
    /\ CleanReturned /\ last.result.kind = "int" /\ last.result.n > 0
    /\ APIC_cover \in Keys(last.before.tags)
    /\ APIC \notin tags_to_keep /\ APIC_cover \notin tags_to_keep
    /\ disk[last.path].tags[APIC_cover] = V2


----------------------------------------------------------------------------
(* main() of clean_mp3_metadata.py: the cleanup driver *)

DriverKeys == { TALB, TXXX_FOO, APIC_cover }
DriverFiles ==
    { NoTags } \cup { WithTags(t) : t \in Collections(DriverKeys, { V1 }) }

(* The orders in which os.walk may list the files of `paths`. *)
Orderings(paths) ==
    { s \in [1..Cardinality(paths) -> paths] : Range(s) = paths }

InitCleanDriver ==
    /\ os_name = "posix"
    /\ \E n \in 0..NumFiles :
          disk \in [{ FilePath("posix", i) : i \in 1..n } -> DriverFiles]
    /\ tags_to_keep = {}
    /\ mp3_files = << >>
    /\ pc = "start"
    /\ idx = 0
    /\ processed = 0
    /\ errors = 0
    /\ total_tags_removed = 0
    /\ missing = 0
    /\ last = NoCall
    /\ log = << >>
    /\ orig = disk

(* Lines 94-107: the allow-list, the file list, the early return when no
   file was found, the counters. *)
CleanMainStart ==
    /\ pc = "start"
    /\ tags_to_keep' = get_tags_to_keep
    /\ mp3_files' \in Orderings(DOMAIN disk)
    /\ pc' = IF mp3_files' = << >> THEN "exit_no_files" ELSE "loop"
    /\ processed' = 0
    /\ errors' = 0
    /\ total_tags_removed' = 0
    /\ UNCHANGED << os_name, disk, idx, missing, last, log, orig >>

(* What the loop body does with the result of one file (lines 113-122). *)
CountResult_abortsOnError(result) ==
    IF IsFalse(result)
    THEN [errors |-> errors + 1, total |-> total_tags_removed,
          processed |-> processed, line |-> "Failed to process", next |-> "summary"]
    ELSE IF AsInt(result) > 0
    THEN [errors |-> errors, total |-> total_tags_removed + AsInt(result),
          processed |-> processed + 1, line |-> "Cleaned", next |-> "loop"]
    ELSE [errors |-> errors, total |-> total_tags_removed,
          processed |-> processed + 1, line |-> "No tags to remove", next |-> "loop"]

CountResult(result) ==
    IF IsFalse(result)
    THEN [errors |-> errors + 1, total |-> total_tags_removed,
          processed |-> processed, line |-> "Failed to process", next |-> "loop"]
    ELSE IF AsInt(result) > 0
    THEN [errors |-> errors, total |-> total_tags_removed + AsInt(result),
          processed |-> processed + 1, line |-> "Cleaned", next |-> "loop"]
    ELSE [errors |-> errors, total |-> total_tags_removed,
          processed |-> processed + 1, line |-> "No tags to remove", next |-> "loop"]

(* One iteration of the loop of lines 109-122. *)
CleanMainFile ==
    /\ pc = "loop"
    /\ idx < Len(mp3_files)
    /\ \E io \in IOOutcomes :
          LET file_path == mp3_files[idx + 1]
              out == clean_mp3_metadata(disk[file_path], tags_to_keep, io)
              c == CountResult(out.result)
          IN  /\ disk' = [disk EXCEPT ![file_path] = out.file]
              /\ last' = [op |-> "clean", path |-> file_path, before |-> disk[file_path],
                          io |-> io, result |-> out.result]
              /\ errors' = c.errors
              /\ total_tags_removed' = c.total
              /\ processed' = c.processed
              /\ log' = Append(log, [line |-> c.line, path |-> file_path,
                                     result |-> out.result])
              /\ pc' = c.next
    /\ idx' = idx + 1
    /\ UNCHANGED << os_name, tags_to_keep, mp3_files, missing, orig >>

(* Lines 124-127: the summary. *)
CleanMainSummary ==
    /\ pc = "loop"
    /\ idx = Len(mp3_files)
    /\ pc' = "summary"
    /\ UNCHANGED << os_name, disk, tags_to_keep, mp3_files, idx, processed, errors,
                    total_tags_removed, missing, last, log, orig >>

NextCleanDriver == CleanMainStart \/ CleanMainFile \/ CleanMainSummary

SpecCleanDriver == InitCleanDriver /\ [][NextCleanDriver]_vars

(* A single thread runs main() to its end: whenever a step is possible, one
   is taken. *)
FairCleanDriver == SpecCleanDriver /\ WF_vars(NextCleanDriver)


----------------------------------------------------------------------------
(* rekordbox_to_mp3.py: str(int(float(bpm))) *)

Digits == { DigitChars[i] : i \in 1..10 }
DigitVal(c) == (CHOOSE i \in 1..10 : DigitChars[i] = c) - 1

IsDigits(t) == \A i \in 1..Len(t) : t[i] \in Digits

RECURSIVE DigitsToNat(_)
DigitsToNat(t) ==
    IF t = << >> THEN 0
    ELSE 10 * DigitsToNat(SubSeq(t, 1, Len(t) - 1)) + DigitVal(t[Len(t)])

RECURSIVE NatToStr(_)
NatToStr(n) ==
    IF n < 10 THEN << DigitChar(n) >>
    ELSE Append(NatToStr(n \div 10), DigitChar(n % 10))

(* str(i) of a Python int *)
IntToStr(i) == IF i < 0 THEN <<"-">> \o NatToStr(-i) ELSE NatToStr(i)

NotANumber == [ok |-> FALSE, special |-> "none", neg |-> FALSE, ip |-> << >>, frac |-> << >>]

(* float(s), for strings of digits, '.', a sign, and the words nan and inf:
   the sign, the digits before the point and the digits after it. The value
   is the double nearest to that decimal (see RoundsToNextInt). *)
float(s) ==
    LET signed == Len(s) > 0 /\ s[1] \in { "-", "+" }
        neg == Len(s) > 0 /\ s[1] = "-"
        t == IF signed THEN Tail(s) ELSE s
        dots == { i \in 1..Len(t) : t[i] = "." }
    IN  IF t = <<"n","a","n">>
        THEN [NotANumber EXCEPT !.ok = TRUE, !.special = "nan", !.neg = neg]
        ELSE IF t = <<"i","n","f">>
        THEN [NotANumber EXCEPT !.ok = TRUE, !.special = "inf", !.neg = neg]
        ELSE IF dots = {}
        THEN IF t # << >> /\ IsDigits(t)
             THEN [ok |-> TRUE, special |-> "none", neg |-> neg, ip |-> t, frac |-> << >>]
             ELSE NotANumber
        ELSE IF Cardinality(dots) = 1
        THEN LET d == CHOOSE i \in dots : TRUE
                 ip == SubSeq(t, 1, d - 1)
                 frac == SubSeq(t, d + 1, Len(t))
             IN  IF IsDigits(ip) /\ IsDigits(frac) /\ Len(ip) + Len(frac) > 0
                 THEN [ok |-> TRUE, special |-> "none", neg |-> neg, ip |-> ip, frac |-> frac]
                 ELSE NotANumber
        ELSE NotANumber

(* Decimal arithmetic on digit lists, least significant digit first. *)
RECURSIVE Reverse(_)
Reverse(t) == IF t = << >> THEN << >> ELSE Append(Reverse(Tail(t)), Head(t))

RECURSIVE StripHighZeros(_)
StripHighZeros(ds) ==
    IF ds # << >> /\ ds[Len(ds)] = 0 THEN StripHighZeros(SubSeq(ds, 1, Len(ds) - 1)) ELSE ds

RECURSIVE TimesTwo(_, _)
TimesTwo(ds, carry) ==
    IF ds = << >> THEN (IF carry = 0 THEN << >> ELSE << carry >>)
    ELSE LET v == 2 * Head(ds) + carry
         IN  << v % 10 >> \o TimesTwo(Tail(ds), v \div 10)

(* 10^n - F for the n-digit F (F # 0) *)
RECURSIVE TenComplement(_, _)
TenComplement(ds, started) ==
    IF ds = << >> THEN << >>
    ELSE IF started THEN << 9 - Head(ds) >> \o TenComplement(Tail(ds), TRUE)
    ELSE IF Head(ds) = 0 THEN << 0 >> \o TenComplement(Tail(ds), FALSE)
    ELSE << 10 - Head(ds) >> \o TenComplement(Tail(ds), TRUE)

(* ds > 10^n *)
ExceedsPow10(ds, n) ==
    \/ Len(ds) > n + 1
    \/ Len(ds) = n + 1 /\ (ds[n + 1] > 1 \/ \E i \in 1..n : ds[i] # 0)

(* ds * 2^k <= 10^n *)
RECURSIVE ScaledWithin(_, _, _)
ScaledWithin(ds, k, n) ==
    IF ExceedsPow10(ds, n) THEN FALSE
    ELSE IF k = 0 THEN TRUE
    ELSE ScaledWithin(TimesTwo(ds, 0), k - 1, n)

RECURSIVE CeilLog2(_)
CeilLog2(m) == IF m <= 1 THEN 0 ELSE 1 + CeilLog2((m + 1) \div 2)

(* Whether the double nearest to ip.frac is the integer ip + 1.  The doubles
   just below ip + 1 are 2^(e-52) apart, where 2^e < ip + 1 <= 2^(e+1), and a
   tie goes to ip + 1 (the even significand): the decimal rounds to ip + 1
   exactly when 1 - 0.frac <= 2^(e-53). *)
RoundsToNextInt(ip, frac) ==
    LET n == Len(frac)
        lsd == Reverse([i \in 1..n |-> DigitVal(frac[i])])
    IN  /\ \E i \in 1..n : frac[i] # "0"
        /\ ScaledWithin(StripHighZeros(TenComplement(lsd, FALSE)), 54 - CeilLog2(ip + 1), n)

(* int(f) of the float f: towards zero; nan and inf raise. *)
int_roundsHalfUp(f) ==
    LET ip == DigitsToNat(f.ip)
        m == ip + (IF f.frac # << >> /\ DigitVal(f.frac[1]) >= 5 THEN 1 ELSE 0)
    IN  IF f.neg THEN -m ELSE m

int(f) ==
    LET ip == DigitsToNat(f.ip)
        m == ip + (IF RoundsToNextInt(ip, f.frac) THEN 1 ELSE 0)
    IN  IF f.neg THEN -m ELSE m


----------------------------------------------------------------------------
(* rekordbox_to_mp3.py: update_mp3_tags *)

(* Lines 66-73: the four deletions. *)
RemoveExisting_dropsEveryTXXX(tags) ==
    DelTags(tags, { TBPM, TKEY } \cup { k \in Keys(tags) : StartsWith(k, TXXX_) })

RemoveExisting(tags) ==
    LET t1 == IF TBPM \in Keys(tags) THEN DelTag(tags, TBPM) ELSE tags
        t2 == IF TKEY \in Keys(t1) THEN DelTag(t1, TKEY) ELSE t1
        t3 == IF TXXX_BPM \in Keys(t2) THEN DelTag(t2, TXXX_BPM) ELSE t2
        t4 == IF TXXX_INITIALKEY \in Keys(t3) THEN DelTag(t3, TXXX_INITIALKEY) ELSE t3
    IN  t4

(* Lines 76-79: the three frames added; a TXXX frame with desc INITIALKEY is
   stored under the hash key 'TXXX:INITIALKEY'. *)
AddNew_backupFromStaleKey(tags, old, bpm_int, key) ==
    LET t5 == AddTag(tags, TBPM, bpm_int)
        t6 == AddTag(t5, TKEY, key)
    IN  AddTag(t6, TXXX_ \o INITIALKEY, IF TKEY \in Keys(old) THEN old[TKEY] ELSE key)

AddNew(tags, old, bpm_int, key) ==
    LET t5 == AddTag(tags, TBPM, bpm_int)
        t6 == AddTag(t5, TKEY, key)
    IN  AddTag(t6, TXXX_ \o INITIALKEY, key)

(* Where the exception of a bad BPM leaves the file. *)
OnBadBpm_savesDeletions(file, stripped) == WithTags(stripped)

OnBadBpm(file, stripped) == file

(* update_mp3_tags(file_path, bpm, key): the value returned and the file as
   stored afterwards. *)
update_mp3_tags(file, bpm, key, io) ==
    IF io = "load_fails" THEN [result |-> PyFalse, file |-> file]
    ELSE LET tags0 == IF file.hasTags THEN file.tags ELSE << >>
             stripped == RemoveExisting(tags0)
             f == float(bpm)
         IN  IF ~f.ok \/ f.special # "none"
             THEN [result |-> PyFalse, file |-> OnBadBpm(file, stripped)]
             ELSE LET bpm_int == IntToStr(int(f))
                      written == WithTags(AddNew(stripped, tags0, bpm_int, key))
                  IN  IF io = "save_fails" THEN [result |-> PyFalse, file |-> file]
                      ELSE IF io = "save_fails_written"
                           THEN [result |-> PyFalse, file |-> written]
                           ELSE [result |-> PyTrue, file |-> written]

----------------------------------------------------------------------------
(* One call of update_mp3_tags on one file, for any collection, BPM string
   and key. *)

Str_100 == <<"1","0","0">>
Str_3A == <<"3","A">>
Str_5A == <<"5","A">>
Str_8A == <<"8","A">>
Str_95_4 == <<"9","5",".","4">>
Str_127_9 == <<"1","2","7",".","9">>
Str_nan == <<"n","a","n">>
Str_inf == <<"i","n","f">>
Nines(n) == [i \in 1..n |-> "9"]
(* 127.99999999999999 and 127.999999999999999 *)
Str_127_14nines == <<"1","2","7",".">> \o Nines(14)
Str_127_15nines == <<"1","2","7",".">> \o Nines(15)

BpmAlphabet == { "1", "9", ".", "-", "x" }
BpmInputs ==
    SeqsUpTo(BpmAlphabet, MaxBpmLen)
        \cup { Str_95_4, Str_127_9, Str_nan, Str_inf, Str_127_14nines, Str_127_15nines }
KeyInputs == { Str_5A, Str_8A }

(* A stale value for each key a file may hold. *)
StaleValue(k) ==
    IF k = TBPM THEN Str_100
    ELSE IF k \in { TKEY, TXXX_INITIALKEY } THEN Str_3A
    ELSE V1

UpdateCallKeys == { TBPM, TKEY, TXXX_BPM, TXXX_INITIALKEY, TALB, TXXX_FOO, APIC_cover }
UpdateCallFiles ==
    { NoTags } \cup { WithTags([k \in S |-> StaleValue(k)]) : S \in SUBSET UpdateCallKeys }

InitUpdateCall ==
    /\ os_name = "posix"
    /\ \E f \in UpdateCallFiles : disk = [p \in { FilePath("posix", 1) } |-> f]
    /\ tags_to_keep = {}
    /\ mp3_files = << >>
    /\ pc = "call"
    /\ idx = 0
    /\ processed = 0
    /\ errors = 0
    /\ total_tags_removed = 0
    /\ missing = 0
    /\ last = NoCall
    /\ log = << >>
    /\ orig = disk

UpdateCall ==
    /\ pc = "call"
    /\ \E bpm \in BpmInputs, key \in KeyInputs, io \in IOOutcomes :
          LET path == FilePath("posix", 1)
              out == update_mp3_tags(disk[path], bpm, key, io)
          IN  /\ disk' = [disk EXCEPT ![path] = out.file]
              /\ last' = [op |-> "update", path |-> path, before |-> disk[path],
                          bpm |-> bpm, key |-> key, io |-> io, result |-> out.result]
    /\ pc' = "returned"
    /\ UNCHANGED << os_name, tags_to_keep, mp3_files, idx, processed, errors,
                    total_tags_removed, missing, log, orig >>

(* The same call once more, after it succeeded. *)
UpdateAgain ==
    /\ pc = "returned"
    /\ last.result = PyTrue
    /\ LET out == update_mp3_tags(disk[last.path], last.bpm, last.key, "ok")
       IN  /\ disk' = [disk EXCEPT ![last.path] = out.file]
           /\ last' = [last EXCEPT !.before = disk[last.path], !.result = out.result]
    /\ pc' = "repeated"
    /\ UNCHANGED << os_name, tags_to_keep, mp3_files, idx, processed, errors,
                    total_tags_removed, missing, log, orig >>

NextUpdateCall == UpdateCall \/ UpdateAgain

SpecUpdateCall == InitUpdateCall /\ [][NextUpdateCall]_vars

UpdateReturned == pc \in { "returned", "repeated" } /\ last.op = "update"
UpdateSucceeded == UpdateReturned /\ last.result = PyTrue

OverwriteKeys == { TBPM, TKEY, TXXX_BPM, TXXX_INITIALKEY }

(* The decimal s cut at its point: the integer obtained by truncating the
   number s denotes toward zero. *)
TruncatedDecimal(s) ==
    LET f == float(s)
        m == DigitsToNat(f.ip)
    IN  IF f.neg THEN -m ELSE m

SignificantDigits(s) == Cardinality({ i \in 1..Len(s) : s[i] \in Digits })

(* The keys a successful overwrite leaves, apart from the value of TBPM. *)
OverwrittenKeys(after, key) ==
    /\ TBPM \in Keys(after)
    /\ TKEY \in Keys(after) /\ after[TKEY] = key
    /\ TXXX_INITIALKEY \in Keys(after) /\ after[TXXX_INITIALKEY] = key
    /\ TXXX_BPM \notin Keys(after)

(* C3 as stated: after a successful update_mp3_tags(file, s, k) the file
   holds TBPM with the text of s truncated toward zero, never rounded up,
   TKEY = k, TXXX:INITIALKEY = k and no TXXX:BPM. *)
C3_TruncatesTheString ==
    UpdateSucceeded =>
        LET after == disk[last.path].tags
        IN  /\ OverwrittenKeys(after, last.key)
            /\ after[TBPM] = IntToStr(TruncatedDecimal(last.bpm))

(* C3 as amended: after a successful update_mp3_tags(file, s, k) the file
   holds TKEY = k, TXXX:INITIALKEY = k, no TXXX:BPM, and TBPM with the text
   of an integer that is s truncated toward zero whenever s has at most 15
   digits, and otherwise either that integer or the next one away from
   zero. *)
C3_TruncatesTheDouble ==
    UpdateSucceeded =>
        LET after == disk[last.path].tags
            t == TruncatedDecimal(last.bpm)
            away == IF float(last.bpm).neg THEN t - 1 ELSE t + 1
        IN  /\ OverwrittenKeys(after, last.key)
            /\ after[TBPM] \in { IntToStr(t), IntToStr(away) }
            /\ SignificantDigits(last.bpm) <= 15 => after[TBPM] = IntToStr(t)

C3_Witness ==
    /\ UpdateSucceeded
    /\ last.bpm = Str_127_9 /\ last.key = Str_5A
    /\ { TBPM, TKEY, TXXX_BPM, TXXX_INITIALKEY } \subseteq Keys(last.before.tags)
    /\ last.before.tags[TBPM] = Str_100
    /\ disk[last.path].tags[TBPM] = <<"1","2","7">>

(* C4: update_mp3_tags changes only TBPM, TKEY, TXXX:BPM and TXXX:INITIALKEY:
   every tag under another key is present after the call if and only if it
   was present before, with the same value. *)
C4_OtherTagsUntouched ==
    UpdateReturned =>
        LET before == last.before.tags
            after == disk[last.path].tags
        IN  /\ Keys(after) \ OverwriteKeys = Keys(before) \ OverwriteKeys
            /\ \A k \in Keys(before) \ OverwriteKeys : after[k] = before[k]

C4_Witness ==
    /\ UpdateSucceeded
    /\ { TXXX_FOO, APIC_cover, TALB, TXXX_BPM } \subseteq Keys(last.before.tags)
    /\ Keys(disk[last.path].tags) = { TXXX_FOO, APIC_cover, TALB, TBPM, TKEY, TXXX_INITIALKEY }


----------------------------------------------------------------------------
(* rekordbox_to_mp3.py: parse_rekordbox_location *)

Upper == <<"A","B","C","D","E","F","G","H","I","J","K","L","M","N","O","P","Q","R","S","T","U","V","W","X","Y","Z">>
Lower == <<"a","b","c","d","e","f","g","h","i","j","k","l","m","n","o","p","q","r","s","t","u","v","w","x","y","z">>
Letters == Range(Upper) \cup Range(Lower)

(* chr(b), for the codes of the characters the locations of the model hold *)
Chr(b) ==
    CASE b \in 48..57 -> DigitChars[b - 47]
      [] b \in 65..90 -> Upper[b - 64]
      [] b \in 97..122 -> Lower[b - 96]
      [] b = 32 -> " "
      [] b = 37 -> "%"
      [] b = 45 -> "-"
      [] b = 46 -> "."
      [] b = 47 -> "/"
      [] b = 58 -> ":"
      [] b = 95 -> "_"

HexDigits == <<"0","1","2","3","4","5","6","7","8","9","A","B","C","D","E","F">>
HexLower == <<"0","1","2","3","4","5","6","7","8","9","a","b","c","d","e","f">>
IsHex(c) == \E i \in 1..16 : HexDigits[i] = c \/ HexLower[i] = c
HexVal(c) == (CHOOSE i \in 1..16 : HexDigits[i] = c \/ HexLower[i] = c) - 1

(* urllib.parse.unquote, for escapes of printable ASCII characters: '%XX'
   becomes the character with that code, anything else stays as it is. *)
RECURSIVE unquote(_)
unquote(s) ==
    IF s = << >> THEN << >>
    ELSE IF Head(s) = "%" /\ Len(s) >= 3 /\ IsHex(s[2]) /\ IsHex(s[3])
    THEN << Chr(16 * HexVal(s[2]) + HexVal(s[3])) >> \o unquote(SubSeq(s, 4, Len(s)))
    ELSE << Head(s) >> \o unquote(Tail(s))

RECURSIVE lstrip(_, _)
lstrip(s, ch) == IF s # << >> /\ Head(s) = ch THEN lstrip(Tail(s), ch) ELSE s

replace(s, old, new) == [i \in 1..Len(s) |-> IF s[i] = old THEN new ELSE s[i]]

file_localhost == <<"f","i","l","e",":","/","/","l","o","c","a","l","h","o","s","t">>
file_scheme == <<"f","i","l","e",":","/","/">>

(* Lines 19-22 *)
StripScheme(location) ==
    IF StartsWith(location, file_localhost)
    THEN SubSeq(location, Len(file_localhost) + 1, Len(location))
    ELSE IF StartsWith(location, file_scheme)
    THEN SubSeq(location, Len(file_scheme) + 1, Len(location))
    ELSE location

(* os.sep *)
sep(os) == IF os = "nt" THEN "\\" ELSE "/"

(* Lines 28-31 *)
Normalize(os, decoded_path) ==
    IF os = "nt"
    THEN LET stripped ==
                 IF Len(decoded_path) >= 3 /\ decoded_path[1] = "/" /\ decoded_path[3] = ":"
                 THEN lstrip(decoded_path, "/")
                 ELSE decoded_path
         IN  replace(stripped, "/", sep(os))
    ELSE decoded_path

parse_rekordbox_location(os, location) ==
    Normalize(os, unquote(StripScheme(location)))

----------------------------------------------------------------------------
(* One call of parse_rekordbox_location, for any platform and location. *)

LocTokens == { <<"/">>, <<"E">>, <<":">>, <<"1">>, <<"%","2","F">>, <<"%","3","A">> }

RECURSIVE Flatten(_)
Flatten(ts) == IF ts = << >> THEN << >> ELSE Head(ts) \o Flatten(Tail(ts))

LocationInputs ==
    { prefix \o Flatten(ts) :
        prefix \in { file_localhost, file_scheme, << >> },
        ts \in SeqsUpTo(LocTokens, MaxLocLen) }

InitResolve ==
    /\ os_name \in { "nt", "posix" }
    /\ disk = << >>
    /\ tags_to_keep = {}
    /\ mp3_files = << >>
    /\ pc = "call"
    /\ idx = 0
    /\ processed = 0
    /\ errors = 0
    /\ total_tags_removed = 0
    /\ missing = 0
    /\ \E location \in LocationInputs : last = [op |-> "input", location |-> location]
    /\ log = << >>
    /\ orig = disk

Resolve ==
    /\ pc = "call"
    /\ last' = [op |-> "parse", location |-> last.location,
                result |-> parse_rekordbox_location(os_name, last.location)]
    /\ pc' = "returned"
    /\ UNCHANGED << os_name, disk, tags_to_keep, mp3_files, idx, processed, errors,
                    total_tags_removed, missing, log, orig >>

NextResolve == Resolve

SpecResolve == InitResolve /\ [][NextResolve]_vars

(* "a slash, then a single letter, then ':'" *)
IsDriveLetterPath(d) ==
    Len(d) >= 3 /\ d[1] = "/" /\ d[2] \in Letters /\ d[3] = ":"

(* C7: on Windows the leading slash of the prefix-stripped, decoded string
   is stripped exactly when the string starts with a slash, a single letter
   and ':'; for every other decoded string no leading character is removed
   and only the forward slashes are replaced by the native separator. *)
C7_StripsOnlyBeforeDriveLetter ==
    (pc = "returned" /\ last.op = "parse" /\ os_name = "nt") =>
        LET d == unquote(StripScheme(last.location))
        IN  last.result = replace(IF IsDriveLetterPath(d) THEN Tail(d) ELSE d, "/", "\\")

(* The drive-letter case itself: 'file://localhost/E:/1' gives 'E:\1'. *)
C7_DriveLetterResolved ==
    /\ pc = "returned" /\ last.op = "parse" /\ os_name = "nt"
    /\ last.location = file_localhost \o <<"/","E",":","/","1">>
    /\ last.result = <<"E",":","\\","1">>


(* C8: update_mp3_tags applied a second time with the same BPM string and
   key leaves the collection exactly as the first application left it. *)
C8_SecondOverwriteChangesNothing ==
    [][(pc = "returned" /\ pc' = "repeated") =>
            (last'.result = PyTrue /\ disk' = disk)]_vars

C8_Witness ==
    /\ pc = "repeated" /\ last.result = PyTrue
    /\ last.bpm = Str_95_4 /\ last.key = Str_5A
    /\ TKEY \in Keys(orig[last.path].tags) /\ orig[last.path].tags[TKEY] = Str_3A
    /\ TXXX_BPM \in Keys(orig[last.path].tags)
    /\ last.before = disk[last.path]
    /\ disk[last.path].tags[TXXX_INITIALKEY] = Str_5A

----------------------------------------------------------------------------
(* main() of rekordbox_to_mp3.py: the import driver.  The tracks of the XML
   export are drawn one by one as the loop reaches them; extract_track_data
   yields only tracks whose bpm, key and location are non-empty. *)

ImportFiles ==
    { NoTags,
      WithTags([k \in { TBPM, TKEY, TXXX_BPM, TALB } |-> StaleValue(k)]) }

ImportLocations ==
    { file_localhost \o <<"/","1">>,
      file_localhost \o <<"/","E",":","/","1">>,
      file_scheme \o <<"/","%","3","1">>,
      file_localhost \o <<"/","0">> }
ImportBpms == { Str_95_4, <<"x">>, Str_nan }
ImportKeys == { Str_5A }

InitImportDriver ==
    /\ os_name \in { "nt", "posix" }
    /\ \E f \in ImportFiles : disk = [p \in { FilePath(os_name, 1) } |-> f]
    /\ tags_to_keep = {}
    /\ mp3_files = << >>
    /\ pc = "start"
    /\ idx = 0
    /\ processed = 0
    /\ errors = 0
    /\ total_tags_removed = 0
    /\ missing = 0
    /\ last = NoCall
    /\ log = << >>
    /\ orig = disk

(* Lines 113-117 *)
ImportMainStart ==
    /\ pc = "start"
    /\ pc' = "loop"
    /\ processed' = 0
    /\ missing' = 0
    /\ UNCHANGED << os_name, disk, tags_to_keep, mp3_files, idx, errors,
                    total_tags_removed, last, log, orig >>

(* What the loop does after update_mp3_tags returned (lines 123-127). *)
AfterUpdate(result) ==
    IF ~IsFalse(result)
    THEN [processed |-> processed + 1, line |-> "Updated", next |-> "loop"]
    ELSE [processed |-> processed, line |-> "Failed to update", next |-> "loop"]

(* One iteration of the loop of lines 119-131, the file being there. *)
ImportMainTrack ==
    /\ pc = "loop"
    /\ idx < MaxTracks
    /\ \E location \in ImportLocations, bpm \in ImportBpms, key \in ImportKeys,
          io \in IOOutcomes :
          LET file_path == parse_rekordbox_location(os_name, location)
              out == update_mp3_tags(disk[file_path], bpm, key, io)
              c == AfterUpdate(out.result)
          IN  /\ file_path \in DOMAIN disk
              /\ disk' = [disk EXCEPT ![file_path] = out.file]
              /\ last' = [op |-> "update", path |-> file_path, before |-> disk[file_path],
                          bpm |-> bpm, key |-> key, io |-> io, result |-> out.result]
              /\ processed' = c.processed
              /\ log' = Append(log, [line |-> c.line, path |-> file_path, bpm |-> bpm])
              /\ pc' = c.next
    /\ idx' = idx + 1
    /\ UNCHANGED << os_name, tags_to_keep, mp3_files, errors, total_tags_removed,
                    missing, orig >>

(* One iteration of the loop, the file not being there (lines 128-131); the
   write to the log of missing files may raise, which ends the loop in the
   handler of line 138. *)
ImportMainMissing ==
    /\ pc = "loop"
    /\ idx < MaxTracks
    /\ \E location \in ImportLocations, logged \in BOOLEAN :
          LET file_path == parse_rekordbox_location(os_name, location)
          IN  /\ file_path \notin DOMAIN disk
              /\ log' = Append(log, [line |-> "File not found", path |-> file_path,
                                     bpm |-> << >>])
              /\ missing' = IF logged THEN missing + 1 ELSE missing
              /\ pc' = IF logged THEN "loop" ELSE "xml_error"
    /\ idx' = idx + 1
    /\ UNCHANGED << os_name, disk, tags_to_keep, mp3_files, processed, errors,
                    total_tags_removed, last, orig >>

(* Line 133: the list is exhausted. *)
ImportMainSummary ==
    /\ pc = "loop"
    /\ pc' = "summary"
    /\ UNCHANGED << os_name, disk, tags_to_keep, mp3_files, idx, processed, errors,
                    total_tags_removed, missing, last, log, orig >>

NextImportDriver ==
    ImportMainStart \/ ImportMainTrack \/ ImportMainMissing \/ ImportMainSummary

SpecImportDriver == InitImportDriver /\ [][NextImportDriver]_vars

BadBpm(s) == ~float(s).ok \/ float(s).special # "none"

(* C5: when the BPM value does not parse as a number, no tag of the file is
   deleted or added and nothing is saved, the call reports the failure, and
   the driver goes on to the next track without counting the file. *)
C5_BadBpmChangesNothing ==
    [][(pc = "loop" /\ idx' = idx + 1 /\ last'.op = "update" /\ BadBpm(last'.bpm)
            /\ log'[idx'].line # "File not found") =>
         /\ disk' = disk
         /\ IsFalse(last'.result)
         /\ log'[idx'].line = "Failed to update"
         /\ pc' = "loop"
         /\ processed' = processed
         /\ missing' = missing]_vars

C5_Witness ==
    /\ pc = "loop" /\ Len(log) = 2
    /\ log[1].line = "Failed to update" /\ log[1].bpm = <<"x">>
    /\ log[2].line = "Updated"
    /\ TBPM \in Keys(orig[last.path].tags)
    /\ last.before = orig[last.path]
    /\ processed = 1


----------------------------------------------------------------------------
(* The cleanup driver: properties *)

(* C6: a file without tags, or with an empty collection, is a no-op for the
   cleanup: nothing is deleted or saved, the result reports zero tags
   removed, and the driver counts the file as processed, without an error
   and without adding to the total of tags removed. *)
C6_NoTagsIsNoOp ==
    [][(pc = "loop" /\ idx' = idx + 1 /\ last'.io # "load_fails"
            /\ Keys(disk[mp3_files[idx']].tags) = {}) =>
         /\ disk' = disk
         /\ AsInt(last'.result) = 0
         /\ ~IsFalse(last'.result)
         /\ processed' = processed + 1
         /\ errors' = errors
         /\ total_tags_removed' = total_tags_removed]_vars

Attempted == [j \in 1..Len(log) |-> log[j].path]
Failed == { j \in 1..Len(log) : IsFalse(log[j].result) }

(* What C9 says of the counters and of the files, as far as the loop got. *)
C9_Counts ==
    pc \in { "loop", "summary" } =>
        /\ Len(log) = idx
        /\ Attempted = SubSeq(mp3_files, 1, idx)
        /\ errors = Cardinality(Failed)
        /\ processed + errors = idx
        /\ pc = "summary" => idx = Len(mp3_files)
        /\ \A j \in 1..idx :
              \E io \in IOOutcomes :
                  clean_mp3_metadata(orig[log[j].path], get_tags_to_keep, io)
                      = [result |-> log[j].result, file |-> disk[log[j].path]]

(* C9 as stated: for every list of MP3 files the run ends in its summary,
   with every file attempted once in list order, one error per failing file
   and processed + errors equal to the number of files found. *)
C9_EveryRunEndsInSummary ==
    /\ C9_Counts
    /\ pc \notin { "start", "loop" } => pc = "summary"

(* C9 as amended: the same, for every list that holds at least one file. *)
C9_NonEmptyRunEndsInSummary ==
    /\ []C9_Counts
    /\ [](pc = "exit_no_files" => mp3_files = << >>)
    /\ (pc = "loop") ~> (pc = "summary")

C9_Witness ==
    /\ pc = "summary" /\ Len(mp3_files) = 2
    /\ IsFalse(log[1].result)
    /\ log[2].result = PyInt(1)
    /\ errors = 1 /\ processed = 1

----------------------------------------------------------------------------
(* The two tools on one file: any sequence of calls of update_mp3_tags and
   of clean_mp3_metadata with the allow-list of get_tags_to_keep. *)

ComposeFiles ==
    { NoTags } \cup
    { WithTags([k \in S |-> StaleValue(k)]) :
        S \in SUBSET { TBPM, TKEY, TXXX_INITIALKEY, TXXX_FOO, APIC_cover, COMM_eng } }
ComposeBpms == { Str_95_4, Str_127_9, <<"x">> }

InitCompose ==
    /\ os_name = "posix"
    /\ \E f \in ComposeFiles : disk = [p \in { FilePath("posix", 1) } |-> f]
    /\ tags_to_keep = get_tags_to_keep
    /\ mp3_files = << FilePath("posix", 1) >>
    /\ pc = "call"
    /\ idx = 0
    /\ processed = 0
    /\ errors = 0
    /\ total_tags_removed = 0
    /\ missing = 0
    /\ last = NoCall
    /\ log = << >>
    /\ orig = disk

(* A call of update_mp3_tags that no I/O failure interrupts. *)
ComposeUpdate ==
    /\ idx < MaxOps
    /\ \E bpm \in ComposeBpms, key \in KeyInputs :
          LET path == mp3_files[1]
              out == update_mp3_tags(disk[path], bpm, key, "ok")
          IN  /\ disk' = [disk EXCEPT ![path] = out.file]
              /\ last' = [op |-> "update", path |-> path, before |-> disk[path],
                          bpm |-> bpm, key |-> key, io |-> "ok", result |-> out.result]
              /\ log' = Append(log,
                               IF IsFalse(out.result) THEN [line |-> "failed"]
                               ELSE [line |-> "update", bpm |-> bpm, key |-> key])
    /\ idx' = idx + 1
    /\ UNCHANGED << os_name, tags_to_keep, mp3_files, pc, processed, errors,
                    total_tags_removed, missing, orig >>

(* A call of clean_mp3_metadata that no I/O failure interrupts. *)
ComposeClean ==
    /\ idx < MaxOps
    /\ LET path == mp3_files[1]
           out == clean_mp3_metadata(disk[path], tags_to_keep, "ok")
       IN  /\ disk' = [disk EXCEPT ![path] = out.file]
           /\ last' = [op |-> "clean", path |-> path, before |-> disk[path],
                       io |-> "ok", result |-> out.result]
           /\ log' = Append(log, [line |-> "clean"])
    /\ idx' = idx + 1
    /\ UNCHANGED << os_name, tags_to_keep, mp3_files, pc, processed, errors,
                    total_tags_removed, missing, orig >>

NextCompose == ComposeUpdate \/ ComposeClean

SpecCompose == InitCompose /\ [][NextCompose]_vars

Imports == { j \in 1..Len(log) : log[j].line = "update" }
Cleanups == { j \in 1..Len(log) : log[j].line = "clean" }
LatestImport == CHOOSE j \in Imports : \A i \in Imports : i <= j

(* C10: a cleanup with the built-in allow-list never deletes the TBPM, TKEY
   and TXXX:INITIALKEY tags the latest import wrote, an import never adds a
   key outside the allow-list, and once a cleanup has succeeded every key of
   the file is in the allow-list or is cover-art. *)
C10_ToolsCompose ==
    LET tags == disk[mp3_files[1]].tags
    IN  /\ Imports # {} =>
              /\ { TBPM, TKEY, TXXX_INITIALKEY } \subseteq Keys(tags)
              /\ tags[TBPM] = IntToStr(int(float(log[LatestImport].bpm)))
              /\ tags[TKEY] = log[LatestImport].key
              /\ tags[TXXX_INITIALKEY] = log[LatestImport].key
        /\ (last.op = "update" /\ ~IsFalse(last.result)) =>
              (Keys(tags) \ Keys(last.before.tags)) \subseteq get_tags_to_keep
        /\ Cleanups # {} =>
              \A k \in Keys(tags) : k \in get_tags_to_keep \/ IsCoverArtKey(k)

C10_Witness ==
    /\ Len(log) = 3
    /\ log[1].line = "clean" /\ log[2].line = "update" /\ log[3].line = "clean"
    /\ { TXXX_FOO, APIC_cover, COMM_eng, TBPM } \subseteq Keys(orig[mp3_files[1]].tags)
    /\ log[2].bpm = Str_127_9
    /\ disk[mp3_files[1]].tags[TBPM] = <<"1","2","7">>
    /\ Keys(disk[mp3_files[1]].tags) = { APIC_cover, TBPM, TKEY, TXXX_INITIALKEY }

=============================================================================
